---- MODULE Spec2Model ----
(***************************************************************************)
(* Model of cmd/kapacitor/main.go: the command dispatcher, the handlers    *)
(* doHelp .. doVersion, the URLs they build with net/url, and the decoding *)
(* of the response envelope.                                               *)
(*                                                                         *)
(* Go strings are modelled as sequences of one-character strings, so that  *)
(* url.QueryEscape, url.Values.Encode, strings.Join and the parsing the    *)
(* service does on the other side are computed character by character.    *)
(* Error messages and the fields of the response payload are opaque and    *)
(* are modelled as TLA+ strings.                                           *)
(***************************************************************************)
EXTENDS Integers, Sequences, FiniteSets, TLC

\* ------------------------------------------------------------------ bounds
\* Largest number of arguments after the command word.
MaxArgs == 3
\* Largest number of entries in a Tasks / Recordings array of a response.
MaxEntries == 2

\* ------------------------------------------------------- string literals
s_empty == <<>>
s_help == <<"h","e","l","p">>
s_record == <<"r","e","c","o","r","d">>
s_define == <<"d","e","f","i","n","e">>
s_replay == <<"r","e","p","l","a","y">>
s_enable == <<"e","n","a","b","l","e">>
s_disable == <<"d","i","s","a","b","l","e">>
s_delete == <<"d","e","l","e","t","e">>
s_list == <<"l","i","s","t">>
s_level == <<"l","e","v","e","l">>
s_version == <<"v","e","r","s","i","o","n">>
\* a command word main does not know
s_bogus == <<"f","o","o">>

s_stream == <<"s","t","r","e","a","m">>
s_batch == <<"b","a","t","c","h">>
s_query == <<"q","u","e","r","y">>
s_task == <<"t","a","s","k">>
s_recording == <<"r","e","c","o","r","d","i","n","g">>
s_tasks == <<"t","a","s","k","s">>
s_recordings == <<"r","e","c","o","r","d","i","n","g","s">>

s_type == <<"t","y","p","e">>
s_duration == <<"d","u","r","a","t","i","o","n">>
s_name == <<"n","a","m","e">>
s_start == <<"s","t","a","r","t">>
s_num == <<"n","u","m">>
s_addr == <<"a","d","d","r">>
s_qtype == <<"q","t","y","p","e">>
s_id == <<"i","d">>
s_clock == <<"c","l","o","c","k">>
s_fast == <<"f","a","s","t">>
s_rid == <<"r","i","d">>
s_rids == <<"r","i","d","s">>

s_scheme == <<"h","t","t","p",":","/","/">>
s_authority == <<"l","o","c","a","l","h","o","s","t",":","9","0","9","2">>
p_record == <<"/">> \o s_record
p_task == <<"/">> \o s_task
p_replay == <<"/">> \o s_replay
p_enable == <<"/">> \o s_enable
p_disable == <<"/">> \o s_disable
p_tasks == <<"/">> \o s_tasks
p_recording == <<"/">> \o s_recording
p_recordings == <<"/">> \o s_recordings
p_loglevel == <<"/","l","o","g","l","e","v","e","l">>

\* ------------------------------------------------------- string helpers
HasPrefix(s, p) == Len(s) >= Len(p) /\ SubSeq(s, 1, Len(p)) = p

\* strings.Index for a single character: the first position of c, 0 if absent.
IndexOf(s, c) ==
  IF \E k \in 1..Len(s) : s[k] = c
    THEN CHOOSE k \in 1..Len(s) : s[k] = c /\ \A j \in 1..(k-1) : s[j] # c
    ELSE 0

RECURSIVE Join(_, _)
\* strings.Join(elems, sep)
Join(elems, sep) ==
  IF Len(elems) = 0 THEN <<>>
  ELSE IF Len(elems) = 1 THEN elems[1]
  ELSE elems[1] \o sep \o Join(Tail(elems), sep)

Digit(d) == <<"0","1","2","3","4","5","6","7","8","9">>[d + 1]

RECURSIVE FormatNat(_)
FormatNat(n) == IF n < 10 THEN <<Digit(n)>> ELSE FormatNat(n \div 10) \o <<Digit(n % 10)>>

\* strconv.FormatInt(n, 10)
FormatInt(n) == IF n < 0 THEN <<"-">> \o FormatNat(0 - n) ELSE FormatNat(n)

\* time.Duration.String() for a positive whole number of seconds:
\* "5m0s", "1m30s", "1h0m0s", "45s".
DurationString(secs) ==
  LET h == secs \div 3600
      m == (secs % 3600) \div 60
      s == secs % 60
  IN  (IF h > 0 THEN FormatNat(h) \o <<"h">> ELSE <<>>)
      \o (IF h > 0 \/ m > 0 THEN FormatNat(m) \o <<"m">> ELSE <<>>)
      \o FormatNat(s) \o <<"s">>

\* ------------------------------------------------------------- net/url
\* Characters url.QueryEscape leaves alone (letters, digits, "-", "_", ".", "~").
Unreserved ==
  {"a","b","c","d","e","f","g","h","i","j","k","l","m","n","o","p","q","r","s","t",
   "u","v","w","x","y","z","0","1","2","3","4","5","6","7","8","9","-","_",".","~"}

\* The two hexadecimal digits of the characters that are escaped as %XX.
HexOf ==
  [c \in {"&", "=", "?", "%", "+", ",", ":", "/", "#"} |->
     CASE c = "&" -> <<"2","6">>
       [] c = "=" -> <<"3","D">>
       [] c = "?" -> <<"3","F">>
       [] c = "%" -> <<"2","5">>
       [] c = "+" -> <<"2","B">>
       [] c = "," -> <<"2","C">>
       [] c = ":" -> <<"3","A">>
       [] c = "/" -> <<"2","F">>
       [] c = "#" -> <<"2","3">>]

EscapeChar(c) ==
  IF c \in Unreserved THEN <<c>>
  ELSE IF c = " " THEN <<"+">>
  ELSE <<"%">> \o HexOf[c]

RECURSIVE QueryEscape(_)
\* url.QueryEscape
QueryEscape(s) == IF s = <<>> THEN <<>> ELSE EscapeChar(Head(s)) \o QueryEscape(Tail(s))

IsEscape(s) == Len(s) >= 3 /\ s[1] = "%" /\ \E c \in DOMAIN HexOf : HexOf[c] = <<s[2], s[3]>>
Unhex(s) == CHOOSE c \in DOMAIN HexOf : HexOf[c] = <<s[2], s[3]>>

RECURSIVE Unescape(_, _)
\* url.unescape: %XX to the character; "+" to a space in a query component
\* (plus = TRUE) and left alone in a path.  A "%" that starts no escape of
\* HexOf is kept as it is: the client never produces one.
Unescape(s, plus) ==
  IF s = <<>> THEN <<>>
  ELSE IF IsEscape(s) THEN <<Unhex(s)>> \o Unescape(SubSeq(s, 4, Len(s)), plus)
  ELSE IF plus /\ Head(s) = "+" THEN <<" ">> \o Unescape(Tail(s), plus)
  ELSE <<Head(s)>> \o Unescape(Tail(s), plus)

\* url.Values as a function from keys to values.  No handler adds a key
\* twice, so one value per key is enough.
NoValues == [k \in {} |-> <<>>]
Add(v, k, x) == [kk \in (DOMAIN v) \cup {k} |-> IF kk = k THEN x ELSE v[kk]]

\* The keys the handlers use, as sort.Strings orders them in Values.Encode.
SortedKeys ==
  << s_empty, s_addr, s_clock, s_duration, s_id, s_level, s_name, s_num, s_qtype,
     s_rid, s_rids, s_start, s_tasks, s_type >>

RECURSIVE EncodeFrom(_, _)
EncodeFrom(v, n) ==
  IF n > Len(SortedKeys) THEN <<>>
  ELSE LET k == SortedKeys[n]
           rest == EncodeFrom(v, n + 1)
       IN  IF k \in DOMAIN v
             THEN QueryEscape(k) \o <<"=">> \o QueryEscape(v[k])
                  \o (IF rest = <<>> THEN <<>> ELSE <<"&">> \o rest)
             ELSE rest

\* url.Values.Encode
Encode(v) == EncodeFrom(v, 1)

\* What the transport and the service make of a URL string: the scheme and
\* authority, the decoded path and the raw query (url.Parse).
ParseURL(u) ==
  IF ~HasPrefix(u, s_scheme)
    THEN [scheme |-> <<>>, host |-> <<>>, path |-> u, rawQuery |-> <<>>]
    ELSE LET afterScheme == SubSeq(u, Len(s_scheme) + 1, Len(u))
             slash == IndexOf(afterScheme, "/")
             host == IF slash = 0 THEN afterScheme ELSE SubSeq(afterScheme, 1, slash - 1)
             rest == IF slash = 0 THEN <<>> ELSE SubSeq(afterScheme, slash, Len(afterScheme))
             q == IndexOf(rest, "?")
         IN  [scheme |-> s_scheme,
              host |-> host,
              path |-> Unescape(IF q = 0 THEN rest ELSE SubSeq(rest, 1, q - 1), FALSE),
              rawQuery |-> IF q = 0 THEN <<>> ELSE SubSeq(rest, q + 1, Len(rest))]

RECURSIVE ParseQuery(_)
\* url.ParseQuery: the decoded (key, value) pairs of a raw query, in order.
ParseQuery(raw) ==
  IF raw = <<>> THEN <<>>
  ELSE LET amp == IndexOf(raw, "&")
           pair == IF amp = 0 THEN raw ELSE SubSeq(raw, 1, amp - 1)
           rest == IF amp = 0 THEN <<>> ELSE SubSeq(raw, amp + 1, Len(raw))
           eq == IndexOf(pair, "=")
           k == IF eq = 0 THEN pair ELSE SubSeq(pair, 1, eq - 1)
           x == IF eq = 0 THEN <<>> ELSE SubSeq(pair, eq + 1, Len(pair))
       IN  (IF pair = <<>> THEN <<>>
            ELSE << [key |-> Unescape(k, TRUE), val |-> Unescape(x, TRUE)] >>)
           \o ParseQuery(rest)

\* ---------------------------------------------------------------- inputs
\* Task names and recording IDs given on the command line; two of them need
\* URL escaping.
Names == { <<"a">>, <<"b"," ","c">>, <<"?","&","=","%","+",",","/","#">> }

SeqsUpTo(S, n) == UNION { [1..k -> S] : k \in 0..n }

\* flag defaults (the var blocks of recordFlags, defineFlags, replayFlags)
DefaultNum == 1
DefaultDurationSecs == 300
DefaultFlags ==
  [ raddr |-> <<>>, rname |-> <<>>, rstart |-> <<>>, rnum |-> DefaultNum,
    rquery |-> <<>>, rtype |-> <<>>, rdur |-> DefaultDurationSecs,
    dname |-> <<>>, dtick |-> <<>>, dtype |-> <<>>,
    rtname |-> <<>>, rid |-> <<>>, rfast |-> FALSE ]

\* The values flag.Parse can leave in the flag variables of one command.
RecordFlagSets ==
  { [DefaultFlags EXCEPT !.raddr = a, !.rname = n, !.rstart = s, !.rnum = k,
                         !.rquery = q, !.rtype = t, !.rdur = d] :
      a \in {<<>>, <<"h",":","8">>}, n \in {<<>>, <<"a"," ","b">>},
      s \in {<<>>, <<"0","1",":","0","0">>}, k \in {DefaultNum, 10, 0 - 3},
      q \in {<<>>, <<"s"," ","=","1">>}, t \in {<<>>, <<"b">>},
      d \in {DefaultDurationSecs, 90, 3600} }
DefineFlagSets ==
  { [DefaultFlags EXCEPT !.dname = n, !.dtick = k, !.dtype = t] :
      n \in {<<>>, <<"a"," ","b">>}, k \in {<<>>, <<"t",".","t","i","c","k">>},
      t \in {<<>>, <<"s","&">>} }
ReplayFlagSets ==
  { [DefaultFlags EXCEPT !.rtname = n, !.rid = r, !.rfast = f] :
      n \in {<<>>, <<"a"," ","b">>}, r \in {<<>>, <<"r","/","1">>}, f \in BOOLEAN }

\* os.Args[2:] (flag arguments left out: they are in the flag variables) and
\* the flag variables, for one command word.
Invocations(command) ==
  CASE command = s_help ->
         SeqsUpTo({s_record, s_define, s_replay, s_enable, s_disable, s_delete,
                   s_list, s_level, s_help, s_version, s_bogus}, 2) \X {DefaultFlags}
    [] command = s_record ->
         ({<<>>} \X {DefaultFlags})
           \cup ({<<s_stream>>, <<s_batch>>, <<s_query>>, <<s_bogus>>} \X RecordFlagSets)
    [] command = s_define -> {<<>>} \X DefineFlagSets
    [] command = s_replay -> {<<>>} \X ReplayFlagSets
    [] command \in {s_enable, s_disable, s_level} -> SeqsUpTo(Names, MaxArgs) \X {DefaultFlags}
    [] command = s_delete ->
         SeqsUpTo(Names \cup {s_task, s_recording}, MaxArgs) \X {DefaultFlags}
    [] command = s_list ->
         SeqsUpTo(Names \cup {s_tasks, s_recordings}, MaxArgs) \X {DefaultFlags}
    [] OTHER -> SeqsUpTo(Names, 1) \X {DefaultFlags}

Commands ==
  { s_help, s_record, s_define, s_replay, s_enable, s_disable, s_delete, s_list,
    s_level, s_version, s_bogus }

\* --------------------------------------------------------------- responses
\* The nil error, and the empty Error field of an envelope.
NoErr == ""

TaskEntries ==
  { [Name |-> "t1", Type |-> "stream", Enabled |-> TRUE],
    [Name |-> "t2", Type |-> "batch", Enabled |-> FALSE] }
RecordingEntries ==
  { [ID |-> "r1", Type |-> "stream", Size |-> 1572864],
    [ID |-> "r2", Type |-> "batch", Size |-> 0] }

\* The payload fields a response body can carry.
NoPayload == [RecordingID |-> "", Tasks |-> <<>>, Recordings |-> <<>>]
RecordPayloads == { [NoPayload EXCEPT !.RecordingID = r] : r \in {"", "rec-1"} }
TasksPayloads == { [NoPayload EXCEPT !.Tasks = t] : t \in SeqsUpTo(TaskEntries, MaxEntries) }
RecordingsPayloads ==
  { [NoPayload EXCEPT !.Recordings = t] : t \in SeqsUpTo(RecordingEntries, MaxEntries) }

\* The outcome of one HTTP call: a transport error, or a body that is either
\* not JSON or an envelope with an Error field and a payload.
TransportFailure(msg) ==
  [transportErr |-> msg, validJSON |-> FALSE, Error |-> "", payload |-> NoPayload]
Malformed ==
  [transportErr |-> NoErr, validJSON |-> FALSE, Error |-> "", payload |-> NoPayload]
Envelope(e, p) ==
  [transportErr |-> NoErr, validJSON |-> TRUE, Error |-> e, payload |-> p]

Outcomes(payloads) ==
  { TransportFailure("connection refused"), Malformed }
    \cup { Envelope(e, p) : e \in {"", "boom"}, p \in payloads }

\* ------------------------------------------------------------------- state
VARIABLES
  osArgs,       \* os.Args[1:]: the command word and its positional arguments
  flags,        \* the package-level flag variables after flag parsing
  pc,           \* "main", "call" (handler about to run), "loop", "exited"
  commandF,     \* the handler main selected
  commandArgs,  \* the arguments main passes to it
  idx,          \* position of a multi-target loop in its arguments
  baseURL,      \* doDelete's locals
  paramName,
  attempts,     \* number of HTTP calls made (http.Post, http.Get, client.Do)
  requests,     \* the requests handed to the transport, in order
  responses,    \* the outcome of each HTTP call, in order
  open,         \* response bodies acquired and not closed
  deferred,     \* the handler's deferred r.Body.Close() calls
  stdout,       \* lines written to standard output
  stderr,       \* lines written to standard error
  err,          \* the error the handler returned (NoErr for nil)
  exitCode      \* the process's exit code, Running until it ends

vars ==
  << osArgs, flags, pc, commandF, commandArgs, idx, baseURL, paramName, attempts,
     requests, responses, open, deferred, stdout, stderr, err, exitCode >>

Running == 0 - 1
ExitOK == 0
ExitUnknownCommand == 1
ExitUsage == 2
ExitFailure == 3

Init ==
  /\ \/ osArgs = <<>> /\ flags = DefaultFlags
     \/ \E command \in Commands : \E inv \in Invocations(command) :
          osArgs = <<command>> \o inv[1] /\ flags = inv[2]
  /\ pc = "main"
  /\ commandF = "none"
  /\ commandArgs = <<>>
  /\ idx = 0
  /\ baseURL = <<>>
  /\ paramName = <<>>
  /\ attempts = 0
  /\ requests = <<>>
  /\ responses = <<>>
  /\ open = {}
  /\ deferred = <<>>
  /\ stdout = <<>>
  /\ stderr = <<>>
  /\ err = NoErr
  /\ exitCode = Running

\* ------------------------------------------------------------- primitives
\* os.Exit(code) after writing `lines` to standard error.
Exit(code, lines) ==
  /\ pc' = "exited"
  /\ exitCode' = code
  /\ stderr' = stderr \o lines

\* main's exit code for the error a handler returned.
ExitCodeOf(e) == IF e # NoErr THEN ExitFailure ELSE ExitOK

\* Mutant: only the Close deferred last runs.
RunDeferred_LastOnly(op, d) == IF d = <<>> THEN op ELSE op \ { d[Len(d)] }

\* The deferred closes of a handler, run when it returns.
RunDeferred(op, d) == op \ { d[k] : k \in DOMAIN d }

\* A handler returns e to main: its deferred calls run, main prints the
\* error, if any, and the process ends.
Return(e, op, d) ==
  /\ pc' = "exited"
  /\ err' = e
  /\ open' = RunDeferred(op, d)
  /\ deferred' = <<>>
  /\ exitCode' = ExitCodeOf(e)
  /\ stderr' = IF e # NoErr THEN Append(stderr, e) ELSE stderr

\* Mutant: a body that is not JSON is reported through the Error field.
Decode_SurfacesFailure(r) ==
  IF r.validJSON THEN [Error |-> r.Error, payload |-> r.payload]
  ELSE [Error |-> "invalid character", payload |-> NoPayload]

\* json.Decoder.Decode into the handler's resp struct: a body that is not
\* JSON leaves the struct zero-valued, and the handlers drop Decode's error.
Decode(r) ==
  IF r.validJSON THEN [Error |-> r.Error, payload |-> r.payload]
  ELSE [Error |-> "", payload |-> NoPayload]

\* The transport refuses a URL without an http scheme; nothing is sent.
CanSend(url) == ParseURL(url).scheme = s_scheme
OutcomesOf(url, payloads) ==
  IF CanSend(url) THEN Outcomes(payloads)
  ELSE { TransportFailure("unsupported protocol scheme") }

Request(method, url, ctype) == [method |-> method, url |-> url, ctype |-> ctype]

\* Mutant: the envelope's Error field is not looked at.
ResultOf_IgnoresEnvelope(r) == r.transportErr

\* The error a handler returns after one HTTP call: the transport's, else
\* the envelope's non-empty Error, else nil.
ResultOf(r) == IF r.transportErr # NoErr THEN r.transportErr ELSE Decode(r).Error

\* One HTTP call and what every handler does around it: the request goes
\* out, the outcome r comes back, and on transport success the body is
\* acquired and its Close deferred.
Call(method, url, ctype, r) ==
  /\ attempts' = attempts + 1
  /\ requests' = IF CanSend(url) THEN Append(requests, Request(method, url, ctype))
                 ELSE requests
  /\ responses' = Append(responses, r)

BodyOf(r) == IF r.transportErr = NoErr THEN {Len(responses) + 1} ELSE {}
Defer(d, r) == IF r.transportErr = NoErr THEN Append(d, Len(responses) + 1) ELSE d

URL(path, v) == s_scheme \o s_authority \o path \o <<"?">> \o Encode(v)

\* -------------------------------------------------------------------- main
HandlerOf(command) ==
  CASE command = s_help -> "doHelp"
    [] command = s_record -> "doRecord"
    [] command = s_define -> "doDefine"
    [] command = s_replay -> "doReplay"
    [] command = s_enable -> "doEnable"
    [] command = s_disable -> "doDisable"
    [] command = s_delete -> "doDelete"
    [] command = s_list -> "doList"
    [] command = s_level -> "doLevel"
    [] command = s_version -> "doVersion"
    [] OTHER -> "none"

\* record gets its mode only; define and replay get what flag parsing left
\* over (nothing here); the others get every argument.
CommandArgsOf(command, args) ==
  CASE command = s_record -> SubSeq(args, 1, 1)
    [] command \in {s_define, s_replay} -> <<>>
    [] OTHER -> args

\* main up to the call of the handler.
Main ==
  /\ pc = "main"
  /\ UNCHANGED << osArgs, flags, idx, baseURL, paramName, attempts, requests,
                  responses, open, deferred, stdout, err >>
  /\ IF Len(osArgs) = 0
       THEN /\ Exit(ExitUnknownCommand, <<"Error: Must pass a command.", "usage">>)
            /\ UNCHANGED << commandF, commandArgs >>
     ELSE IF osArgs[1] = s_record /\ Len(osArgs) = 1
       THEN /\ Exit(ExitUsage, <<"record usage">>)
            /\ UNCHANGED << commandF, commandArgs >>
     ELSE IF HandlerOf(osArgs[1]) = "none"
       THEN /\ Exit(ExitUnknownCommand, <<"Unknown command", "usage">>)
            /\ UNCHANGED << commandF, commandArgs >>
     ELSE /\ commandF' = HandlerOf(osArgs[1])
          /\ commandArgs' = CommandArgsOf(osArgs[1], Tail(osArgs))
          /\ pc' = "call"
          /\ UNCHANGED << exitCode, stderr >>

\* The locals of a handler that has no loop stay as they are.
NoLoop == UNCHANGED << osArgs, flags, commandF, commandArgs, idx, baseURL, paramName >>
NoCall == UNCHANGED << attempts, requests, responses >>

\* -------------------------------------------------------------------- help
DoHelp ==
  /\ pc = "call" /\ commandF = "doHelp"
  /\ NoLoop /\ NoCall
  /\ UNCHANGED stdout
  /\ IF Len(commandArgs) = 1 /\ HandlerOf(commandArgs[1]) = "none"
       THEN /\ Exit(ExitUnknownCommand, <<"Unknown command", "usage">>)
            /\ UNCHANGED << open, deferred, err >>
       ELSE /\ Return(NoErr, open, deferred)

\* ----------------------------------------------------------------- version
DoVersion ==
  /\ pc = "call" /\ commandF = "doVersion"
  /\ NoLoop /\ NoCall
  /\ stdout' = Append(stdout, [kind |-> "version", cols |-> <<"v0.1", "", "">>])
  /\ Return(NoErr, open, deferred)

\* ------------------------------------------------------------------ record
KnownRecordType(mode) == mode \in {s_stream, s_batch, s_query}

\* The url.Values doRecord builds for a mode.
RecordValues(mode) ==
  LET v == Add(NoValues, s_type, mode)
  IN  CASE mode = s_stream -> Add(v, s_duration, DurationString(flags.rdur))
        [] mode = s_batch ->
             Add(Add(Add(Add(v, s_name, flags.rname), s_start, flags.rstart),
                     s_num, FormatInt(flags.rnum)), s_addr, flags.raddr)
        [] mode = s_query -> Add(Add(v, s_qtype, flags.rtype), s_addr, flags.raddr)
        [] OTHER -> v

\* Mutant: the recording ID is printed before the Error field is checked.
RecordOutput_IgnoresError(e, rp) ==
  << [kind |-> "id", cols |-> <<rp.payload.RecordingID>>] >>

\* What doRecord prints: the recording ID, unless it returns an error.
RecordOutput(e, rp) ==
  IF e = NoErr THEN << [kind |-> "id", cols |-> <<rp.payload.RecordingID>>] >> ELSE <<>>

DoRecord ==
  /\ pc = "call" /\ commandF = "doRecord"
  /\ NoLoop
  /\ IF ~KnownRecordType(commandArgs[1])
       THEN /\ NoCall
            /\ UNCHANGED stdout
            /\ Return("Unknown record type", open, deferred)
       ELSE \E r \in OutcomesOf(URL(p_record, RecordValues(commandArgs[1])), RecordPayloads) :
              /\ Call("POST", URL(p_record, RecordValues(commandArgs[1])),
                      "application/octetstream", r)
              /\ stdout' = stdout \o RecordOutput(ResultOf(r), Decode(r))
              /\ Return(ResultOf(r), open \cup BodyOf(r), Defer(deferred, r))

\* ------------------------------------------------------------------ define
\* Mutant: the check tests the script path only.
DefineUsageError_TickOnly == flags.dtick = <<>>

\* doDefine's check of its required flags.
DefineUsageError == flags.dtick = <<>> \/ flags.dname = <<>> \/ flags.dtick = <<>>

DefineValues == Add(Add(NoValues, s_name, flags.dname), s_type, flags.dtype)

DoDefine ==
  /\ pc = "call" /\ commandF = "doDefine"
  /\ NoLoop
  /\ UNCHANGED stdout
  /\ IF DefineUsageError
       THEN /\ NoCall
            /\ Exit(ExitUsage, <<"Must pass name,tick and type options.", "define usage">>)
            /\ UNCHANGED << open, deferred, err >>
       ELSE \/ /\ NoCall   \* os.Open fails
               /\ Return("open: no such file or directory", open, deferred)
            \/ \E r \in OutcomesOf(URL(p_task, DefineValues), {NoPayload}) :
                 /\ Call("POST", URL(p_task, DefineValues), "application/octetstream", r)
                 /\ Return(ResultOf(r), open \cup BodyOf(r), Defer(deferred, r))

\* ------------------------------------------------------------------ replay
ReplayValues ==
  LET v == Add(Add(NoValues, s_name, flags.rtname), s_id, flags.rid)
  IN  IF flags.rfast THEN Add(v, s_clock, s_fast) ELSE v

DoReplay ==
  /\ pc = "call" /\ commandF = "doReplay"
  /\ NoLoop
  /\ UNCHANGED stdout
  /\ \E r \in OutcomesOf(URL(p_replay, ReplayValues), {NoPayload}) :
       /\ Call("POST", URL(p_replay, ReplayValues), "application/octetstream", r)
       /\ Return(ResultOf(r), open \cup BodyOf(r), Defer(deferred, r))

\* ------------------------------------------------------------------- level
LevelUsageError(args) == Len(args) = 0

LevelValues(args) == Add(NoValues, s_level, args[1])

DoLevel ==
  /\ pc = "call" /\ commandF = "doLevel"
  /\ NoLoop
  /\ UNCHANGED stdout
  /\ IF LevelUsageError(commandArgs)
       THEN /\ NoCall
            /\ Exit(ExitUsage, <<"Must pass a log level", "level usage">>)
            /\ UNCHANGED << open, deferred, err >>
       ELSE \E r \in OutcomesOf(URL(p_loglevel, LevelValues(commandArgs)), {NoPayload}) :
              /\ Call("POST", URL(p_loglevel, LevelValues(commandArgs)), "text/plain", r)
              /\ Return(ResultOf(r), open \cup BodyOf(r), Defer(deferred, r))

\* ------------------------------------------------- enable, disable, delete
\* One iteration of a per-target loop: the call for one target, then either
\* the next iteration (more = TRUE and no error) or the handler's return.
Iterate(method, url, ctype, more) ==
  \E r \in OutcomesOf(url, {NoPayload}) :
    /\ Call(method, url, ctype, r)
    /\ IF ResultOf(r) = NoErr /\ more
         THEN /\ idx' = idx + 1
              /\ open' = open \cup BodyOf(r)
              /\ deferred' = Defer(deferred, r)
              /\ UNCHANGED << pc, err, exitCode, stderr >>
         ELSE /\ Return(ResultOf(r), open \cup BodyOf(r), Defer(deferred, r))
              /\ UNCHANGED idx

\* The handler's entry: its usage check, then the loop starts at `first`.
Enter(usageError, lines, first) ==
  /\ NoCall
  /\ UNCHANGED << osArgs, flags, commandF, commandArgs, open, deferred, stdout, err >>
  /\ IF usageError
       THEN Exit(ExitUsage, lines) /\ UNCHANGED idx
       ELSE /\ pc' = "loop"
            /\ idx' = first
            /\ UNCHANGED << exitCode, stderr >>

EnableUsageError(args) == Len(args) < 1
EnableURL(name) == URL(p_enable, Add(NoValues, s_name, name))
\* the for loop of doEnable goes on to the next name
EnableContinues(k, args) == k < Len(args)

DoEnable ==
  /\ pc = "call" /\ commandF = "doEnable"
  /\ Enter(EnableUsageError(commandArgs),
           <<"Must pass at least one task name", "enable usage">>, 1)
  /\ UNCHANGED << baseURL, paramName >>

EnableIter ==
  /\ pc = "loop" /\ commandF = "doEnable"
  /\ Iterate("POST", EnableURL(commandArgs[idx]), "application/octetstream",
             EnableContinues(idx, commandArgs))
  /\ UNCHANGED << osArgs, flags, commandF, commandArgs, baseURL, paramName, stdout >>

DisableUsageError(args) == Len(args) < 1
DisableURL(name) == URL(p_disable, Add(NoValues, s_name, name))
\* the body of doDisable's for loop ends in `return nil`
DisableContinues(k, args) == FALSE

DoDisable ==
  /\ pc = "call" /\ commandF = "doDisable"
  /\ Enter(DisableUsageError(commandArgs),
           <<"Must pass at least one task name", "disable usage">>, 1)
  /\ UNCHANGED << baseURL, paramName >>

DisableIter ==
  /\ pc = "loop" /\ commandF = "doDisable"
  /\ Iterate("POST", DisableURL(commandArgs[idx]), "application/octetstream",
             DisableContinues(idx, commandArgs))
  /\ UNCHANGED << osArgs, flags, commandF, commandArgs, baseURL, paramName, stdout >>

DeleteUsageError(args) == Len(args) < 2
\* the switch of doDelete: no case for another kind, the locals stay empty
DeleteBaseURL(kind) ==
  CASE kind = s_task -> s_scheme \o s_authority \o p_task
    [] kind = s_recording -> s_scheme \o s_authority \o p_recording
    [] OTHER -> <<>>
DeleteParamName(kind) ==
  CASE kind = s_task -> s_name
    [] kind = s_recording -> s_rid
    [] OTHER -> <<>>
DeleteURL(base, param, arg) == base \o Encode(Add(NoValues, param, arg))
DeleteContinues(k, args) == k < Len(args)

DoDelete ==
  /\ pc = "call" /\ commandF = "doDelete"
  /\ NoCall
  /\ UNCHANGED << osArgs, flags, commandF, commandArgs, open, deferred, stdout, err >>
  /\ IF DeleteUsageError(commandArgs)
       THEN /\ Exit(ExitUsage, <<"Must pass at least one task name or recording ID",
                                 "enable usage">>)
            /\ UNCHANGED << idx, baseURL, paramName >>
       ELSE /\ baseURL' = DeleteBaseURL(commandArgs[1])
            /\ paramName' = DeleteParamName(commandArgs[1])
            /\ stderr' = Append(stderr, "[run] args")
            /\ pc' = "loop"
            /\ idx' = 2
            /\ UNCHANGED exitCode

DeleteIter ==
  /\ pc = "loop" /\ commandF = "doDelete"
  /\ Iterate("DELETE", DeleteURL(baseURL, paramName, commandArgs[idx]), "",
             DeleteContinues(idx, commandArgs))
  /\ UNCHANGED << osArgs, flags, commandF, commandArgs, baseURL, paramName, stdout >>

\* -------------------------------------------------------------------- list
ListUsageError(args) == Len(args) = 0

FormatBool(b) == IF b THEN "true" ELSE "false"

\* float64(size)/1024.0/1024.0 under %.2f, for sizes that are not half-way
\* between two hundredths.
FormatMB(size) ==
  LET h == (size * 200 + 1048576) \div 2097152
  IN  FormatNat(h \div 100) \o <<".", Digit((h \div 10) % 10), Digit(h % 10)>>

ListURL(path, param, ids) == URL(path, Add(NoValues, param, Join(ids, <<",">>)))

RECURSIVE TaskRows(_)
TaskRows(ts) ==
  IF ts = <<>> THEN <<>>
  ELSE << [kind |-> "row",
           cols |-> <<Head(ts).Name, Head(ts).Type, FormatBool(Head(ts).Enabled)>>] >>
       \o TaskRows(Tail(ts))

RECURSIVE RecordingRows(_)
RecordingRows(rs) ==
  IF rs = <<>> THEN <<>>
  ELSE << [kind |-> "row",
           cols |-> <<Head(rs).ID, Head(rs).Type, FormatMB(Head(rs).Size)>>] >>
       \o RecordingRows(Tail(rs))

TasksHeader == [kind |-> "header", cols |-> <<"Name", "Type", "Enabled">>]
RecordingsHeader == [kind |-> "header", cols |-> <<"ID", "Type", "Size (MB)">>]

\* What doList prints for a decoded response, unless it returns an error.
TasksOutput(e, rp) == IF e = NoErr THEN <<TasksHeader>> \o TaskRows(rp.payload.Tasks) ELSE <<>>
\* Mutant: the header is printed only when there are rows.
RecordingsOutput_NoHeaderWhenEmpty(e, rp) ==
  IF e # NoErr \/ rp.payload.Recordings = <<>> THEN <<>>
  ELSE <<RecordingsHeader>> \o RecordingRows(rp.payload.Recordings)
RecordingsOutput(e, rp) ==
  IF e = NoErr THEN <<RecordingsHeader>> \o RecordingRows(rp.payload.Recordings) ELSE <<>>

DoList ==
  /\ pc = "call" /\ commandF = "doList"
  /\ NoLoop
  /\ IF ListUsageError(commandArgs)
       THEN /\ NoCall
            /\ Exit(ExitUsage, <<"Must specify 'tasks' or 'recordings'", "list usage">>)
            /\ UNCHANGED << open, deferred, err, stdout >>
     ELSE IF commandArgs[1] = s_tasks
       THEN \E r \in OutcomesOf(ListURL(p_tasks, s_tasks, Tail(commandArgs)), TasksPayloads) :
              /\ Call("GET", ListURL(p_tasks, s_tasks, Tail(commandArgs)), "", r)
              /\ stdout' = stdout \o TasksOutput(ResultOf(r), Decode(r))
              /\ Return(ResultOf(r), open \cup BodyOf(r), Defer(deferred, r))
     ELSE IF commandArgs[1] = s_recordings
       THEN \E r \in OutcomesOf(ListURL(p_recordings, s_rids, Tail(commandArgs)),
                                RecordingsPayloads) :
              /\ Call("GET", ListURL(p_recordings, s_rids, Tail(commandArgs)), "", r)
              /\ stdout' = stdout \o RecordingsOutput(ResultOf(r), Decode(r))
              /\ Return(ResultOf(r), open \cup BodyOf(r), Defer(deferred, r))
     ELSE /\ NoCall
          /\ UNCHANGED stdout
          /\ Return(NoErr, open, deferred)

\* ----------------------------------------------------------- specification
Next ==
  \/ Main
  \/ DoHelp
  \/ DoVersion
  \/ DoRecord
  \/ DoDefine
  \/ DoReplay
  \/ DoEnable
  \/ EnableIter
  \/ DoDisable
  \/ DisableIter
  \/ DoDelete
  \/ DeleteIter
  \/ DoList
  \/ DoLevel

Spec == Init /\ [][Next]_vars

\* ------------------------------------------------------ the service's view
Done == pc = "exited"
Command == IF osArgs = <<>> THEN <<>> ELSE osArgs[1]
Args == IF osArgs = <<>> THEN <<>> ELSE Tail(osArgs)

\* The request as the service sees it: method, authority, decoded path and
\* decoded query parameters are exactly the given ones.
IsRequest(req, method, path, params) ==
  LET u == ParseURL(req.url)
      q == ParseQuery(u.rawQuery)
  IN  /\ req.method = method
      /\ u.host = s_authority
      /\ u.path = path
      /\ Len(q) = Cardinality(DOMAIN params)
      /\ \A j \in DOMAIN q : q[j].key \in DOMAIN params /\ params[q[j].key] = q[j].val
      /\ \A k \in DOMAIN params : \E j \in DOMAIN q : q[j].key = k

\* An envelope that decoded and carries an empty Error.
Succeeded(r) == r.transportErr = NoErr /\ r.validJSON /\ r.Error = ""
\* A transport error, or an envelope with a non-empty Error.
Failed(r) == r.transportErr # NoErr \/ (r.validJSON /\ r.Error # "")
FailureOf(r) == IF r.transportErr # NoErr THEN r.transportErr ELSE r.Error

\* ------------------------------------------------------------------ claims
\* C1: `disable n1 .. nk` whose responses all carry an empty Error issues
\* exactly k POST /disable requests, one per name in argument order, and
\* ends successfully.
C1_DisableProcessesEveryName ==
  (Done /\ Command = s_disable /\ Len(Args) >= 1
        /\ \A j \in DOMAIN responses : Succeeded(responses[j]))
    => /\ exitCode = ExitOK
       /\ Len(requests) = Len(Args)
       /\ \A j \in DOMAIN requests :
            IsRequest(requests[j], "POST", p_disable, Add(NoValues, s_name, Args[j]))

\* C2: `enable n1 .. nk` issues its requests one at a time in argument
\* order; the first failing request is the last one issued, and the command
\* ends with that error and exit code 3.
C2_EnableInOrder ==
  Command = s_enable =>
    /\ Len(requests) = Len(responses)
    /\ attempts = Len(requests)
    /\ Len(requests) <= Len(Args)
    /\ \A j \in DOMAIN requests :
         IsRequest(requests[j], "POST", p_enable, Add(NoValues, s_name, Args[j]))
    /\ \A j \in DOMAIN responses :
         Failed(responses[j]) =>
           /\ j = Len(responses)
           /\ Done
           /\ exitCode = ExitFailure
           /\ err = FailureOf(responses[j])
C2_EnableStopsAtFirstFailure ==
  /\ []C2_EnableInOrder
  /\ [][(Command = s_enable /\ \E j \in DOMAIN responses : Failed(responses[j]))
          => (requests' = requests /\ attempts' = attempts)]_vars
C2_Witness ==
  /\ Done /\ Command = s_enable /\ Len(Args) = 3
  /\ Len(requests) = 2 /\ Succeeded(responses[1]) /\ Failed(responses[2])
  /\ exitCode = ExitFailure

\* C3: every request of `delete task ids..` (`delete recording ids..`) is a
\* DELETE to localhost:9092 with path /task (/recording) whose decoded
\* parameter name (rid) is the identifier.
C3_DeleteRequestCarriesIdentifier ==
  (Command = s_delete /\ Len(Args) >= 2 /\ Args[1] \in {s_task, s_recording})
    => \A j \in DOMAIN requests :
         IsRequest(requests[j], "DELETE",
                   IF Args[1] = s_task THEN p_task ELSE p_recording,
                   Add(NoValues, IF Args[1] = s_task THEN s_name ELSE s_rid, Args[j + 1]))

\* C4: an envelope with a non-empty Error E ends the command at once: the
\* handler returns E, the exit code is 3 and nothing was written to
\* standard output, whatever payload the envelope carries.
C4_EnvelopeErrorFailsCommand ==
  \A j \in DOMAIN responses :
    (responses[j].transportErr = NoErr /\ responses[j].validJSON /\ responses[j].Error # "")
      => /\ Done
         /\ j = Len(responses)
         /\ err = responses[j].Error
         /\ exitCode = ExitFailure
         /\ stdout = <<>>
C4_Witness ==
  /\ Done /\ Command = s_record
  /\ responses = << Envelope("boom", [NoPayload EXCEPT !.RecordingID = "rec-1"]) >>
  /\ err = "boom"

\* C5: an unrecognized selector (record mode, delete kind, list kind) is a
\* usage error: no HTTP call is made and the exit code is 2.
UnrecognizedSelector ==
  \/ Command = s_record /\ Len(Args) >= 1 /\ Args[1] \notin {s_stream, s_batch, s_query}
  \/ Command = s_delete /\ Len(Args) >= 2 /\ Args[1] \notin {s_task, s_recording}
  \/ Command = s_list /\ Len(Args) >= 1 /\ Args[1] \notin {s_tasks, s_recordings}
C5_UnrecognizedSelectorIsUsageError ==
  UnrecognizedSelector => /\ attempts = 0
                          /\ Done => exitCode = ExitUsage

\* C6: a missing required argument ends the process with exit code 2, and
\* no HTTP call is made.
MissingArgument ==
  \/ Command = s_record /\ Len(Args) = 0
  \/ Command = s_define /\ (flags.dname = <<>> \/ flags.dtick = <<>>)
  \/ Command \in {s_enable, s_disable} /\ Len(Args) = 0
  \/ Command = s_delete /\ Len(Args) < 2
  \/ Command = s_list /\ Len(Args) = 0
  \/ Command = s_level /\ Len(Args) = 0
C6_MissingArgumentIsUsageError ==
  MissingArgument => /\ attempts = 0
                     /\ requests = <<>>
                     /\ pc # "loop"
                     /\ Done => exitCode = ExitUsage
C6_Witness ==
  /\ Done /\ Command = s_define /\ flags.dname = <<>> /\ flags.dtick # <<>>
  /\ exitCode = ExitUsage

\* C7: a valid `record` issues exactly one POST /record whose parameters
\* are type=<mode> and the mode's own: duration; name, start, num, addr;
\* or the query, its result type and addr.
ExpectedRecordParams(mode) ==
  LET v == Add(NoValues, s_type, mode)
  IN  CASE mode = s_stream -> Add(v, s_duration, DurationString(flags.rdur))
        [] mode = s_batch ->
             Add(Add(Add(Add(v, s_name, flags.rname), s_start, flags.rstart),
                     s_num, FormatInt(flags.rnum)), s_addr, flags.raddr)
        [] mode = s_query ->
             Add(Add(Add(v, s_query, flags.rquery), s_qtype, flags.rtype),
                 s_addr, flags.raddr)
C7_RecordParameters ==
  (Done /\ Command = s_record /\ Len(Args) >= 1 /\ Args[1] \in {s_stream, s_batch, s_query})
    => /\ attempts = 1
       /\ Len(requests) = 1
       /\ IsRequest(requests[1], "POST", p_record, ExpectedRecordParams(Args[1]))

\* C8: `list tasks|recordings [ids..]` issues exactly one GET whose single
\* parameter is the comma-joined identifiers; on an envelope with an empty
\* Error and n entries it prints the header line and then n rows in the
\* response's order.
ListEntries(r) == IF Args[1] = s_tasks THEN r.payload.Tasks ELSE r.payload.Recordings
C8_ListRequestAndTable ==
  (Done /\ Command = s_list /\ Len(Args) >= 1 /\ Args[1] \in {s_tasks, s_recordings})
    => /\ attempts = 1
       /\ Len(requests) = 1
       /\ IsRequest(requests[1], "GET",
                    IF Args[1] = s_tasks THEN p_tasks ELSE p_recordings,
                    Add(NoValues, IF Args[1] = s_tasks THEN s_tasks ELSE s_rids,
                        Join(Tail(Args), <<",">>)))
       /\ Succeeded(responses[1]) =>
            /\ Len(stdout) = Len(ListEntries(responses[1])) + 1
            /\ stdout[1].kind = "header"
            /\ \A j \in DOMAIN ListEntries(responses[1]) :
                 /\ stdout[j + 1].kind = "row"
                 /\ stdout[j + 1].cols[1] =
                      (IF Args[1] = s_tasks THEN ListEntries(responses[1])[j].Name
                       ELSE ListEntries(responses[1])[j].ID)
C8_Witness ==
  /\ Done /\ Command = s_list /\ Len(Args) = 3 /\ Args[1] = s_recordings
  /\ Succeeded(responses[1]) /\ Len(responses[1].payload.Recordings) = 2
  /\ Len(stdout) = 3

\* C9: no handler returns while a response body it acquired is open.
C9_BodiesClosedOnReturn == Done => (open = {} /\ deferred = <<>>)
C9_Witness ==
  /\ Done /\ Command \in {s_enable, s_delete} /\ Len(responses) = 3
  /\ responses[1].transportErr = NoErr /\ responses[2].transportErr = NoErr
  /\ responses[3].transportErr # NoErr

\* C10: a response body that is not JSON counts as an empty envelope: the
\* command succeeds with exit code 0, record prints an empty ID line, list
\* prints the header only, and enable and delete go on to the next target.
C10_MalformedBodyIsSuccess ==
  /\ (Done /\ attempts >= 1 /\ \A j \in DOMAIN responses : responses[j] = Malformed)
       => /\ exitCode = ExitOK
          /\ err = NoErr
          /\ Command = s_record => stdout = << [kind |-> "id", cols |-> <<"">>] >>
          /\ Command = s_list => (Len(stdout) = 1 /\ stdout[1].kind = "header")
  /\ (Done /\ Command \in {s_enable, s_delete})
       => \A j \in DOMAIN responses :
            responses[j] = Malformed =>
              \/ j < Len(responses)
              \/ j = (IF Command = s_enable THEN Len(Args) ELSE Len(Args) - 1)
C10_Witness ==
  /\ Done /\ Command = s_enable /\ Len(Args) = 2
  /\ responses = << Malformed, Malformed >>
  /\ exitCode = ExitOK

====
